---- MODULE Spec2Model ----
(***************************************************************************)
(* Bronze layer of the alert pipeline: schema validation of raw alerts,    *)
(* batching under a validation mode, writing batches to storage            *)
(* (partitioned dataset, single parquet file, json file) and read-back.    *)
(*                                                                         *)
(* Units.  Python floats are modelled by integers:                         *)
(*   ra, dec        whole degrees                                          *)
(*   sigmapsf, rb, drb   hundredths (rb = 95 stands for 0.95)              *)
(*   jd             half days (jd = 4920001 stands for 2460000.5)          *)
(* A raw alert is a Python dict: a function whose DOMAIN is the set of     *)
(* keys present.  An optional value is a sequence of length 0 (None) or 1. *)
(* The clock counts half seconds.                                          *)
(***************************************************************************)
EXTENDS Integers, Sequences, FiniteSets, TLC

\* ---------------------------------------------------------------- bounds
MaxBatch == 3        \* longest raw_alerts list passed to process_alerts
MaxWrites == 2       \* write_batch calls that reach storage in one behaviour
MaxClock == 2        \* last clock tick (half seconds)

\* ------------------------------------------------------- program constants
RaLowerBound == 0
RaUpperBound == 360
DecLowerBound == 0 - 90
DecUpperBound == 90
SigmaLowerBound == 0
FidLowerBound == 1
FidUpperBound == 3
JdThreshold == 4800000
DatetimeEndJd == 10746969
ScoreLowerBound == 0
ScoreUpperBound == 100
ObjectIdMinLength == 3
TicksPerSecond == 2
DefaultMaxRetries == 3
StopAfterAttempt == 3

None == <<>>
Some(v) == <<v>>

RECURSIVE SeqsUpTo(_, _)
SeqsUpTo(S, n) ==
    IF n = 0 THEN {<<>>}
    ELSE LET shorter == SeqsUpTo(S, n - 1)
         IN shorter \cup {Append(s, x) : s \in {t \in shorter : Len(t) = n - 1}, x \in S}

\* ------------------------------------------------------------ raw records
\* create_sample_alert of the tests, at two observation times
SampleAlert(object_id, jd) ==
    [objectId |-> object_id, candid |-> 1234567890, ra |-> 193, dec |-> 2,
     magpsf |-> 1850, sigmapsf |-> 5, fid |-> 1, jd |-> jd, rb |-> 95, drb |-> 98]

Jd1 == 4920001      \* 2460000.5
Jd2 == Jd1 + 3      \* 2460002.0

ValidA == SampleAlert("ZTF21aaa", Jd1)
ValidB == SampleAlert("ZTF21bbb", Jd2)
ValidNumericId == SampleAlert("123", Jd1)
\* keys of a raw record whose values are bytes (the image cutouts of an alert)
BinaryKeys == {"cutoutScience"}
\* a valid record that carries a cutout
ValidWithCutout == SampleAlert("ZTF21ccc", Jd1) @@ ("cutoutScience" :> [bytes |-> "stamp"])
BadRa == [SampleAlert("ZTF21bad", Jd1) EXCEPT !.ra = 360]
MissingFields == [objectId |-> "ZTF21xxx"]
NoObjectId == [ra |-> 10, dec |-> 95]

\* entries of prv_candidates: a detection, a non-detection without magnitude,
\* a dict with a filter id out of range, a dict without jd, a null entry
PrvDetection == [type |-> "dict", value |-> [jd |-> Jd1 - 2, fid |-> 1, magpsf |-> 1900]]
PrvNonDetection == [type |-> "dict", value |-> [jd |-> Jd1 - 4, fid |-> 2]]
PrvBadFid == [type |-> "dict", value |-> [jd |-> Jd1 - 6, fid |-> FidUpperBound + 1]]
PrvNoJd == [type |-> "dict", value |-> [fid |-> 1]]
PrvNull == [type |-> "NoneType"]
Histories ==
    {<<>>, <<PrvDetection, PrvNonDetection>>, <<PrvDetection, PrvBadFid, PrvNonDetection>>,
     <<PrvNoJd, PrvDetection>>, <<PrvDetection, PrvNull>>}

\* the fields of a raw record from a choice of optional values: a key is
\* present when its value is chosen
RawRecord(c) == [k \in {f \in DOMAIN c : c[f] # None} |-> c[k][1]]

\* values on both sides of every field constraint of ZTFAlert
FieldChoices ==
    [objectId : {None, Some("ZT"), Some("ZTF"), Some("ZTF21aaa")},
     ra : {Some(RaLowerBound - 1), Some(RaLowerBound), Some(RaUpperBound - 1),
           Some(RaUpperBound)},
     dec : {Some(DecLowerBound - 1), Some(DecLowerBound), Some(DecUpperBound),
            Some(DecUpperBound + 1)},
     magpsf : {Some(1850)},
     sigmapsf : {Some(SigmaLowerBound - 1), Some(SigmaLowerBound)},
     fid : {Some(FidLowerBound - 1), Some(FidLowerBound), Some(FidUpperBound),
            Some(FidUpperBound + 1)},
     jd : {Some(JdThreshold), Some(JdThreshold + 1)},
     rb : {None, Some(ScoreLowerBound - 1), Some(ScoreLowerBound), Some(ScoreUpperBound),
           Some(ScoreUpperBound + 1)},
     drb : {None, Some(ScoreUpperBound + 1)}]

\* single raw records offered to validation: every choice of field values,
\* and the sample alert with every history
ValidateRecords ==
    {RawRecord(c) : c \in FieldChoices}
    \cup {ValidA @@ ("prv_candidates" :> h) : h \in Histories}

\* raw records offered to process_alerts
RawAlerts == {ValidA, ValidB, BadRa, MissingFields, NoObjectId}
\* raw_alerts lists offered to process_alerts
ProcessInputs == SeqsUpTo(RawAlerts, MaxBatch)
\* raw_alerts lists behind the batches offered to write_batch: empty, two
\* observation dates, one record with a numeric object id
StoredInputs == {<<>>, <<ValidA, ValidB>>, <<ValidNumericId>>}
StoredBatchIds == {Some("custom_123"), Some("custom_456")}
\* object ids that consist of digits only
NumericIds == {"123"}
OutputPath == "bronze/alerts"

Modes == {"strict", "warn", "ignore"}
FileFormats == {"parquet", "delta", "json"}
SuppliedBatchIds == {None, Some("custom_123")}
Sources == {"fink_api"}

\* ------------------------------------------------------------------ state
VARIABLES
    schema_validation_mode,   \* ProcessingSettings.schema_validation_mode
    file_format,              \* StorageSettings.file_format
    clock,                    \* datetime.utcnow(), in half seconds
    uuids,                    \* number of uuid4 values drawn so far
    dir_exists,               \* output_path.exists()
    files,                    \* file name -> [partition, format, rows] under output_path
    writes,                   \* write_batch calls that reached storage
    last_op,                  \* name of the last operation
    raw_input,                \* raw_alerts of the last process_alerts call
    attempted,                \* indices passed to _process_single_alert in that call
    bronze_alerts,            \* bronze_alerts list of that call
    validation_errors,        \* validation_errors list of that call
    log,                      \* log entries of the last call
    raised,                   \* exception that reached the caller ("none" if it returned)
    batch,                    \* AlertBatch returned by the last process_alerts: None or Some(batch)
    written,                  \* arguments of the last write_batch: None or Some([batch, partition_by_date])
    returned_path,            \* value returned by the last write_batch
    write_error,              \* details of the WriteError the last write_batch raised, or None
    read_result,              \* DataFrame the last call returned, if it was read_bronze_data
    stats,                    \* dict the last call returned, if it was get_statistics
    fault,                    \* the storage failure the last call met ("none" if none)
    call,                     \* arguments of the last process_alerts: None or Some([source, source_version, batch_id])
    max_retries,              \* FinkAPIConfig.max_retries of the client
    post_status,              \* FinkAPIClient._post: "idle", "running", "returned" or "raised"
    outcomes                  \* what each attempt of the current _post call met, in order

vars == <<schema_validation_mode, file_format, clock, uuids, dir_exists, files, writes,
          last_op, raw_input, attempted, bronze_alerts, validation_errors, log, raised, batch,
          written, returned_path, write_error, read_result, stats, fault, call,
          max_retries, post_status, outcomes>>

config_vars == <<schema_validation_mode, file_format>>
storage_vars == <<dir_exists, files, writes>>
process_vars == <<raw_input, attempted, bronze_alerts, validation_errors, batch, call>>
client_vars == <<max_retries, post_status, outcomes>>
write_vars == <<written, returned_path, write_error>>

\* ------------------------------------------------------- alert validation
Has(raw, k) == k \in DOMAIN raw

\* Optional field of a raw record: None when the key is absent
Opt(raw, k) == IF Has(raw, k) THEN Some(raw[k]) ELSE None

\* The constraints with right ascension 360 let through
InvalidFieldsClosedRa(raw) ==
    {k \in {"objectId"} : ~Has(raw, k) \/ Len(raw[k]) < ObjectIdMinLength}
    \cup {k \in {"ra"} : ~Has(raw, k) \/ ~(raw[k] >= RaLowerBound /\ raw[k] <= RaUpperBound)}
    \cup {k \in {"dec"} : ~Has(raw, k) \/ ~(raw[k] >= DecLowerBound /\ raw[k] <= DecUpperBound)}
    \cup {k \in {"magpsf"} : ~Has(raw, k)}
    \cup {k \in {"sigmapsf"} : ~Has(raw, k) \/ ~(raw[k] >= SigmaLowerBound)}
    \cup {k \in {"fid"} : ~Has(raw, k) \/ ~(raw[k] >= FidLowerBound /\ raw[k] <= FidUpperBound)}
    \cup {k \in {"jd"} : ~Has(raw, k) \/ ~(raw[k] > JdThreshold)}
    \cup {k \in {"rb", "drb"} :
            Has(raw, k) /\ ~(raw[k] >= ScoreLowerBound /\ raw[k] <= ScoreUpperBound)}
    \cup {k \in {"prv_candidates"} :
            Has(raw, k) /\ \E i \in DOMAIN raw[k] : raw[k][i].type # "dict"}

\* ZTFAlert field constraints: the set of fields pydantic reports as invalid.
\* An entry of prv_candidates is a Python value: [type |-> "dict", value |-> d]
\* for a dict d, [type |-> t] for a value of another type t.
InvalidFields(raw) ==
    {k \in {"objectId"} : ~Has(raw, k) \/ Len(raw[k]) < ObjectIdMinLength}
    \cup {k \in {"ra"} : ~Has(raw, k) \/ ~(raw[k] >= RaLowerBound /\ raw[k] < RaUpperBound)}
    \cup {k \in {"dec"} : ~Has(raw, k) \/ ~(raw[k] >= DecLowerBound /\ raw[k] <= DecUpperBound)}
    \cup {k \in {"magpsf"} : ~Has(raw, k)}
    \cup {k \in {"sigmapsf"} : ~Has(raw, k) \/ ~(raw[k] >= SigmaLowerBound)}
    \cup {k \in {"fid"} : ~Has(raw, k) \/ ~(raw[k] >= FidLowerBound /\ raw[k] <= FidUpperBound)}
    \cup {k \in {"jd"} : ~Has(raw, k) \/ ~(raw[k] > JdThreshold)}
    \cup {k \in {"rb", "drb"} :
            Has(raw, k) /\ ~(raw[k] >= ScoreLowerBound /\ raw[k] <= ScoreUpperBound)}
    \cup {k \in {"prv_candidates"} :
            Has(raw, k) /\ \E i \in DOMAIN raw[k] : raw[k][i].type # "dict"}

\* The alert with the real/bogus score left at its default
ZTFAlertDefaultScore(raw) ==
    [objectId |-> raw.objectId, candid |-> Opt(raw, "candid"),
     ra |-> raw.ra, dec |-> raw.dec,
     magpsf |-> raw.magpsf, sigmapsf |-> raw.sigmapsf, fid |-> raw.fid,
     jd |-> raw.jd, rb |-> None, drb |-> Opt(raw, "drb"),
     prv_candidates |-> Opt(raw, "prv_candidates")]

\* ZTFAlert(**raw_alert): the validated alert (only evaluated when no field is invalid)
ZTFAlert(raw) ==
    [objectId |-> raw.objectId, candid |-> Opt(raw, "candid"),
     ra |-> raw.ra, dec |-> raw.dec,
     magpsf |-> raw.magpsf, sigmapsf |-> raw.sigmapsf, fid |-> raw.fid,
     jd |-> raw.jd, rb |-> Opt(raw, "rb"), drb |-> Opt(raw, "drb"),
     prv_candidates |-> Opt(raw, "prv_candidates")]

\* PreviousCandidate field constraints: the invalid fields of one history dict
PrvInvalidFields(prv) ==
    {k \in {"jd"} : ~Has(prv, k)}
    \cup {k \in {"fid"} : ~Has(prv, k) \/ ~(prv[k] >= FidLowerBound /\ prv[k] <= FidUpperBound)}
    \cup {k \in {"sigmapsf"} : Has(prv, k) /\ ~(prv[k] >= SigmaLowerBound)}

\* PreviousCandidate(**prv)
PreviousCandidate(prv) ==
    [jd |-> prv.jd, fid |-> prv.fid, magpsf |-> Opt(prv, "magpsf"),
     sigmapsf |-> Opt(prv, "sigmapsf")]

\* ZTFAlert.get_previous_candidates: the entries that parse, in order
RECURSIVE get_previous_candidates_from(_)
get_previous_candidates_from(entries) ==
    IF entries = <<>> THEN <<>>
    ELSE LET prv == Head(entries)
         IN (IF prv.type = "dict" /\ PrvInvalidFields(prv.value) = {}
             THEN <<PreviousCandidate(prv.value)>> ELSE <<>>)
            \o get_previous_candidates_from(Tail(entries))

get_previous_candidates(alert) ==
    IF alert.prv_candidates = None THEN <<>>
    ELSE get_previous_candidates_from(alert.prv_candidates[1])

\* Time(jd, format="jd").datetime.strftime("%Y-%m-%d"): the civil day that
\* contains the instant, named by its Julian day number (days start at jd x.5)
ObservationDate(jd) == (jd + 1) \div 2

\* t.datetime raises ValueError for an instant after the year 9999, the last
\* year a datetime can hold
ConversionFails(jd) == jd >= DatetimeEndJd

\* the day on which the clock starts: the day after the sample observations
ClockStartDay == ObservationDate(Jd2) + 1

\* ingestion_timestamp.strftime("%Y-%m-%d") by its day number: the clock
\* starts one second before midnight UTC
IngestionDate(now) == ClockStartDay + (IF now \div TicksPerSecond >= 1 THEN 1 ELSE 0)

\* strftime("%Y-%m-%d") of the civil day with Julian day number day
\* (proleptic Gregorian calendar; %m and %d are padded to two digits)
strftime_date(day) ==
    LET a == day + 32044
        b == (4 * a + 3) \div 146097
        c == a - (146097 * b) \div 4
        d == (4 * c + 3) \div 1461
        e == c - (1461 * d) \div 4
        m == (5 * e + 2) \div 153
        dd == e - (153 * m + 2) \div 5 + 1
        mm == m + 3 - 12 * (m \div 10)
        yyyy == 100 * b + d - 4800 + m \div 10
        two(n) == IF n < 10 THEN "0" \o ToString(n) ELSE ToString(n)
    IN ToString(yyyy) \o "-" \o two(mm) \o "-" \o two(dd)

\* The derived date taken from the ingestion time whatever the alert says
derived_date_ingestion(jd, now) == IngestionDate(now)

\* compute_derived_fields: the date of the observation, or the date of
\* ingestion when the conversion of jd fails
derived_date(jd, now) ==
    IF ConversionFails(jd) THEN IngestionDate(now) ELSE ObservationDate(jd)

\* The enriched record with the source left at the default of the field
BronzeAlertDefaultSource(alert, source, source_version, raw_payload, processing_id, now) ==
    [alert |-> alert, ingestion_timestamp |-> now, source |-> "fink_api",
     source_version |-> source_version, raw_payload |-> raw_payload,
     processing_id |-> processing_id,
     observation_date |-> derived_date(alert.jd, now)]

\* BronzeAlert(...) followed by its model validator compute_derived_fields
BronzeAlert(alert, source, source_version, raw_payload, processing_id, now) ==
    [alert |-> alert, ingestion_timestamp |-> now, source |-> source,
     source_version |-> source_version, raw_payload |-> raw_payload,
     processing_id |-> processing_id,
     observation_date |-> derived_date(alert.jd, now)]

\* _process_single_alert: a BronzeAlert, or SchemaValidationError carrying the
\* object id of the raw record (None when it has no objectId key)
process_single_alert(raw_alert, source, source_version, processing_id, now) ==
    IF InvalidFields(raw_alert) = {}
    THEN [ok |-> TRUE,
          value |-> BronzeAlert(ZTFAlert(raw_alert), source, source_version,
                                raw_alert, processing_id, now)]
    ELSE [ok |-> FALSE,
          value |-> [alert_id |-> Opt(raw_alert, "objectId"),
                     raw_error |-> InvalidFields(raw_alert)]]

\* The failure logged as a warning under strict as well
handle_validation_error_warn(mode, index) ==
    IF mode = "strict" \/ mode = "warn"
    THEN <<[level |-> "warning", event |-> "validation_error_warn", index |-> index]>>
    ELSE <<>>

\* _handle_validation_error: the log entries one failure adds under a mode
handle_validation_error(mode, index) ==
    IF mode = "strict"
    THEN <<[level |-> "error", event |-> "validation_error_strict", index |-> index]>>
    ELSE IF mode = "warn"
    THEN <<[level |-> "warning", event |-> "validation_error_warn", index |-> index]>>
    ELSE <<>>

\* An identifier generated whatever the caller supplies
generates_batch_id_always(supplied) == TRUE

\* batch_id = batch_id or self._generate_batch_id(): None and the empty
\* string are both false
generates_batch_id(supplied) == supplied = None \/ supplied[1] = ""

\* _generate_batch_id: bronze_<utc second>_<uuid4 prefix>
generate_batch_id(now, uuid) ==
    "bronze_" \o ToString(now \div TicksPerSecond) \o "_" \o ToString(uuid)

\* The loop with a failure ending it: the records after the first invalid one
\* are never attempted
RECURSIVE process_loop_abort(_, _, _, _, _, _, _, _)
process_loop_abort(raw_alerts, i, acc, mode, source, source_version, batch_id, now) ==
    IF i > Len(raw_alerts) THEN acc
    ELSE LET r == process_single_alert(raw_alerts[i], source, source_version, batch_id, now)
         IN IF r.ok
            THEN process_loop_abort(raw_alerts, i + 1,
                                    [acc EXCEPT !.bronze_alerts = Append(@, r.value),
                                                !.attempted = Append(@, i - 1)],
                                    mode, source, source_version, batch_id, now)
            ELSE [acc EXCEPT
                    !.validation_errors =
                        Append(@, [index |-> i - 1, error |-> r.value.raw_error,
                                   alert_id |-> IF Has(raw_alerts[i], "objectId")
                                                THEN raw_alerts[i].objectId
                                                ELSE "unknown"]),
                    !.log = @ \o handle_validation_error(mode, i - 1),
                    !.attempted = Append(@, i - 1)]

\* The loop with each success put in front of the list instead of behind it
RECURSIVE process_loop_prepend(_, _, _, _, _, _, _, _)
process_loop_prepend(raw_alerts, i, acc, mode, source, source_version, batch_id, now) ==
    IF i > Len(raw_alerts) THEN acc
    ELSE LET r == process_single_alert(raw_alerts[i], source, source_version, batch_id, now)
             next ==
               IF r.ok
               THEN [acc EXCEPT !.bronze_alerts = <<r.value>> \o @,
                                !.attempted = Append(@, i - 1)]
               ELSE [acc EXCEPT
                       !.validation_errors =
                           Append(@, [index |-> i - 1, error |-> r.value.raw_error,
                                      alert_id |-> IF Has(raw_alerts[i], "objectId")
                                                   THEN raw_alerts[i].objectId
                                                   ELSE "unknown"]),
                       !.log = @ \o handle_validation_error(mode, i - 1),
                       !.attempted = Append(@, i - 1)]
         IN process_loop_prepend(raw_alerts, i + 1, next, mode, source, source_version,
                                 batch_id, now)

\* The for loop of process_alerts from position i (1-based) on; indices
\* recorded in the results are the 0-based indices of enumerate
RECURSIVE process_loop(_, _, _, _, _, _, _, _)
process_loop(raw_alerts, i, acc, mode, source, source_version, batch_id, now) ==
    IF i > Len(raw_alerts) THEN acc
    ELSE LET r == process_single_alert(raw_alerts[i], source, source_version, batch_id, now)
             next ==
               IF r.ok
               THEN [acc EXCEPT !.bronze_alerts = Append(@, r.value),
                                !.attempted = Append(@, i - 1)]
               ELSE [acc EXCEPT
                       !.validation_errors =
                           Append(@, [index |-> i - 1, error |-> r.value.raw_error,
                                      alert_id |-> IF Has(raw_alerts[i], "objectId")
                                                   THEN raw_alerts[i].objectId
                                                   ELSE "unknown"]),
                       !.log = @ \o handle_validation_error(mode, i - 1),
                       !.attempted = Append(@, i - 1)]
         IN process_loop(raw_alerts, i + 1, next, mode, source, source_version, batch_id, now)

\* AlertBatch(alerts, batch_id, source_query); created_at defaults to utcnow
AlertBatch(alerts, batch_id, source_query, now) ==
    [alerts |-> alerts, batch_id |-> batch_id, created_at |-> now,
     source_query |-> source_query]

\* AlertBatch.count
Count(b) == Len(b.alerts)

\* The raise without the test for an empty success list
RaisesAnyFailed(mode, alerts, errors) ==
    Len(errors) > 0 /\ mode = "strict"

\* The raise only from the second failure on
RaisesSeveralFailed(mode, alerts, errors) ==
    /\ Len(errors) > 1 /\ mode = "strict"
    /\ Len(alerts) = 0

\* The raise without the test of the validation mode
RaisesInAnyMode(mode, alerts, errors) ==
    /\ Len(errors) > 0
    /\ Len(alerts) = 0

\* The raise without the test for collected failures
RaisesWhenEmpty(mode, alerts, errors) ==
    /\ mode = "strict"
    /\ Len(alerts) = 0

\* Whether process_alerts raises BronzeProcessingError after the loop
RaisesAllFailed(mode, alerts, errors) ==
    /\ Len(errors) > 0 /\ mode = "strict"
    /\ Len(alerts) = 0

\* The provenance counting the records that validated
source_query_valid(source, raw_alerts) ==
    [source |-> source,
     count |-> Len(SelectSeq(raw_alerts, LAMBDA raw : InvalidFields(raw) = {}))]

\* The provenance without the source passed to the call
source_query_default(source, raw_alerts) ==
    [source |-> "fink_api", count |-> Len(raw_alerts)]

\* source_query={"source": source, "count": len(raw_alerts)}
source_query(source, raw_alerts) == [source |-> source, count |-> Len(raw_alerts)]

\* process_alerts as a function of its arguments, the mode, the clock and
\* the next random identifier: what it logs, collects and returns or raises
process_result(raw_alerts, source, source_version, supplied, mode, now, uuid) ==
    LET batch_id == IF generates_batch_id(supplied) THEN generate_batch_id(now, uuid)
                    ELSE supplied[1]
        start == [bronze_alerts |-> <<>>, validation_errors |-> <<>>, attempted |-> <<>>,
                  log |-> <<[level |-> "info", event |-> "processing_alerts_started",
                             index |-> 0 - 1]>>]
        done == process_loop(raw_alerts, 1, start, mode, source, source_version,
                             batch_id, now)
        fails == RaisesAllFailed(mode, done.bronze_alerts, done.validation_errors)
    IN [attempted |-> done.attempted,
        bronze_alerts |-> done.bronze_alerts,
        validation_errors |-> done.validation_errors,
        log |-> Append(done.log, [level |-> "info", event |-> "processing_alerts_completed",
                                  index |-> 0 - 1]),
        raised |-> IF fails THEN "BronzeProcessingError" ELSE "none",
        batch |-> IF fails THEN None
                  ELSE Some(AlertBatch(done.bronze_alerts, batch_id,
                                       source_query(source, raw_alerts), now))]

\* ------------------------------------------------------------------- Init
Init ==
    /\ schema_validation_mode \in Modes
    /\ file_format \in FileFormats
    /\ clock = 0
    /\ uuids = 0
    /\ dir_exists = FALSE
    /\ files = <<>>
    /\ writes = 0
    /\ last_op = "init"
    /\ raw_input = <<>>
    /\ attempted = <<>>
    /\ bronze_alerts = <<>>
    /\ validation_errors = <<>>
    /\ log = <<>>
    /\ raised = "none"
    /\ batch = None
    /\ written = None
    /\ returned_path = None
    /\ read_result = None
    /\ write_error = None
    /\ stats = None
    /\ fault = "none"
    /\ call = None
    /\ max_retries = DefaultMaxRetries
    /\ post_status = "idle"
    /\ outcomes = <<>>

\* ---------------------------------------------------------------- actions
\* process_alerts creating the output directory as it starts
process_alerts_call_mkdir(raw_alerts, source, source_version, supplied) ==
    /\ LET r == process_result(raw_alerts, source, source_version, supplied,
                               schema_validation_mode, clock, uuids)
       IN /\ uuids' = IF generates_batch_id(supplied) THEN uuids + 1 ELSE uuids
          /\ raw_input' = raw_alerts
          /\ call' = Some([source |-> source, source_version |-> source_version,
                           batch_id |-> supplied])
          /\ attempted' = r.attempted
          /\ bronze_alerts' = r.bronze_alerts
          /\ validation_errors' = r.validation_errors
          /\ log' = r.log
          /\ raised' = r.raised
          /\ batch' = r.batch
    /\ last_op' = "process_alerts"
    /\ dir_exists' = TRUE
    /\ UNCHANGED <<config_vars, client_vars, clock, files, writes, write_vars, read_result,
                   stats, fault>>

\* process_alerts(raw_alerts, source, source_version, batch_id)
process_alerts_call(raw_alerts, source, source_version, supplied) ==
    /\ LET r == process_result(raw_alerts, source, source_version, supplied,
                               schema_validation_mode, clock, uuids)
       IN /\ uuids' = IF generates_batch_id(supplied) THEN uuids + 1 ELSE uuids
          /\ raw_input' = raw_alerts
          /\ call' = Some([source |-> source, source_version |-> source_version,
                           batch_id |-> supplied])
          /\ attempted' = r.attempted
          /\ bronze_alerts' = r.bronze_alerts
          /\ validation_errors' = r.validation_errors
          /\ log' = r.log
          /\ raised' = r.raised
          /\ batch' = r.batch
    /\ last_op' = "process_alerts"
    /\ UNCHANGED <<config_vars, client_vars, clock, storage_vars, write_vars, read_result, stats, fault>>

\* A caller processes a list of raw alerts.  The call reads the
\* configuration, the clock and a random identifier and changes no state of
\* the processor, so one call per behaviour shows all it can do.
process_alerts ==
    /\ last_op = "init"
    /\ \E raw_alerts \in ProcessInputs, source \in Sources,
          supplied \in SuppliedBatchIds :
        process_alerts_call(raw_alerts, source, None, supplied)

\* The wall clock advances between calls
Tick ==
    /\ clock < MaxClock
    /\ clock' = clock + 1
    /\ UNCHANGED <<config_vars, client_vars, uuids, storage_vars, process_vars, write_vars, last_op,
                   log, raised, read_result, stats, fault>>

NextProcess == process_alerts \/ Tick

SpecProcess == Init /\ [][NextProcess]_vars

\* A caller validates one raw record
ValidateRecord ==
    /\ last_op = "init"
    /\ \E raw \in ValidateRecords, source \in Sources :
        process_alerts_call(<<raw>>, source, None, Some("custom_123"))

NextValidate == ValidateRecord

\* Validation does not look at the storage format
InitValidate == Init /\ file_format = "parquet"

SpecValidate == InitValidate /\ [][NextValidate]_vars

\* arguments of process_alerts that reach the provenance of the batch
ProvenanceInputs ==
    {<<>>, <<ValidA>>, <<BadRa>>, <<ValidA, BadRa, ValidB>>, <<BadRa, MissingFields>>,
     <<NoObjectId, ValidB>>}
ProvenanceSources == {"fink_api", "fink_kafka"}
SourceVersions == {None, Some("v1")}
AnyBatchIds == {None, Some(""), Some("custom_123")}

\* A caller processes alerts with every argument given
ProcessWithArguments ==
    /\ last_op = "init"
    /\ \E raw_alerts \in ProvenanceInputs, source \in ProvenanceSources,
          source_version \in SourceVersions, supplied \in AnyBatchIds :
        process_alerts_call(raw_alerts, source, source_version, supplied)

NextProvenance == ProcessWithArguments \/ Tick

SpecProvenance == InitValidate /\ [][NextProvenance]_vars

\* timestamps of the alerts enriched directly: the sample observations, the
\* last instant a datetime holds and the first it does not
DeriveJds == {Jd1, Jd1 + 1, Jd2, DatetimeEndJd - 1, DatetimeEndJd}

\* BronzeAlert(alert=ztf_alert) as the tests build it, kept in bronze_alerts
construct_bronze_alert ==
    /\ Len(bronze_alerts) < MaxBatch
    /\ \E jd \in DeriveJds :
        bronze_alerts' =
            Append(bronze_alerts,
                   BronzeAlert(ZTFAlert(SampleAlert("ZTF21aaa", jd)), "fink_api", None,
                               None, None, clock))
    /\ last_op' = "BronzeAlert"
    /\ raised' = "none"
    /\ log' = <<>>
    /\ UNCHANGED <<config_vars, client_vars, clock, uuids, storage_vars, write_vars,
                   raw_input, attempted, validation_errors, batch, call,
                   read_result, stats, fault>>

NextDerive == construct_bronze_alert \/ Tick

\* the model under default settings, before any record is built
InitDerive == InitValidate /\ schema_validation_mode = "strict"

SpecDerive == InitDerive /\ [][NextDerive]_vars

\* ------------------------------------------------------------ Fink client
\* what one session.post and raise_for_status can meet: a response with a
\* good status, a response with an error status, requests.ReadTimeout,
\* requests.ConnectTimeout, requests.ConnectionError
AttemptOutcomes == {"ok", "error_status", "read_timeout", "connect_timeout", "connection_error"}
\* requests.Timeout and its subclasses
Timeouts == {"read_timeout", "connect_timeout"}
\* retry_if_exception_type((requests.ConnectionError, requests.Timeout))
Retried == Timeouts \cup {"connection_error"}
\* values of FinkAPIConfig.max_retries a client is built with
RetryChoices == {DefaultMaxRetries - 2, DefaultMaxRetries, DefaultMaxRetries + 2}

\* The retries stopped by the configured max_retries
stop_after_max_retries(attempt_number) == attempt_number >= max_retries

\* stop=stop_after_attempt(3)
stop_after_attempt(attempt_number) == attempt_number >= StopAfterAttempt

\* FinkAPIClient(config)
FinkAPIClient_init ==
    /\ post_status # "running"
    /\ \E n \in RetryChoices : max_retries' = n
    /\ post_status' = "idle"
    /\ outcomes' = <<>>
    /\ last_op' = "FinkAPIClient"
    /\ raised' = "none"
    /\ UNCHANGED <<config_vars, clock, uuids, storage_vars, process_vars, write_vars,
                   read_result, stats, fault, log>>

\* a caller calls _post: the retrying wrapper starts its first attempt
post_call ==
    /\ post_status # "running"
    /\ post_status' = "running"
    /\ outcomes' = <<>>
    /\ last_op' = "_post"
    /\ raised' = "none"
    /\ UNCHANGED <<config_vars, max_retries, clock, uuids, storage_vars, process_vars,
                   write_vars, read_result, stats, fault, log>>

\* one attempt of _post under the tenacity wrapper: a response is returned,
\* HTTPError is not retried and passes through, a retried exception starts
\* another attempt unless the stop condition holds, and then the wrapper
\* raises RetryError (the decorator is not given reraise=True)
post_attempt ==
    /\ post_status = "running"
    /\ \E outcome \in AttemptOutcomes :
        /\ outcomes' = Append(outcomes, outcome)
        /\ IF outcome = "ok"
           THEN post_status' = "returned" /\ raised' = "none"
           ELSE IF outcome = "error_status"
           THEN post_status' = "raised" /\ raised' = "HTTPError"
           ELSE IF stop_after_attempt(Len(outcomes) + 1)
           THEN post_status' = "raised" /\ raised' = "RetryError"
           ELSE post_status' = "running" /\ raised' = "none"
    /\ last_op' = "_post"
    /\ UNCHANGED <<config_vars, max_retries, clock, uuids, storage_vars, process_vars,
                   write_vars, read_result, stats, fault, log>>

NextClient == FinkAPIClient_init \/ post_call \/ post_attempt

\* The client does not depend on the processor's configuration
InitClient == InitValidate /\ schema_validation_mode = "strict"

SpecClient == InitClient /\ [][NextClient]_vars

\* ---------------------------------------------------------------- storage
\* json.dumps(payload) raises TypeError when a value of the payload is bytes
JsonSerializable(payload) == DOMAIN payload \cap BinaryKeys = {}

\* the text json.dumps gives for a payload, cut down to the keys that tell
\* the stored records apart
JsonDumps(payload) ==
    "{objectId: " \o payload.objectId \o ", jd: " \o ToString(payload.jd) \o "}"

\* BronzeAlert.to_flat_dict raises what json.dumps raises
to_flat_dict_raises(a) == ~JsonSerializable(a.raw_payload)

\* BronzeAlert.to_flat_dict: the columns of the stored row that are read back,
\* and "raw_payload_json": json.dumps(self.raw_payload) if self.raw_payload else None
to_flat_dict(a) ==
    [object_id |-> a.alert.objectId, observation_date |-> a.observation_date,
     raw_payload_json |-> IF DOMAIN a.raw_payload = {} THEN None
                          ELSE Some(JsonDumps(a.raw_payload))]

\* records = [alert.to_flat_dict() for alert in batch.alerts]
Records(b) == [i \in 1..Len(b.alerts) |-> to_flat_dict(b.alerts[i])]

RowsOfDate(rows, d) == SelectSeq(rows, LAMBDA r : r.observation_date = d)

\* files with the entries of more added or replaced (a file written under an
\* existing name replaces that file)
WriteFiles(fs, more) ==
    [n \in DOMAIN fs \cup DOMAIN more |-> IF n \in DOMAIN more THEN more[n] ELSE fs[n]]

\* The file name without the guid: every write names its file of a partition alike
PartitionFileFixed(d, guid) ==
    "observation_date=" \o ToString(d) \o "/part-0.parquet"

\* name of one file of a partitioned dataset: <column>=<value>/<guid>-0.parquet
PartitionFile(d, guid) ==
    "observation_date=" \o ToString(d) \o "/" \o ToString(guid) \o "-0.parquet"

\* datetime.utcnow().strftime("%Y%m%d_%H%M%S"): the clock cut to whole seconds
Timestamp(now) == ToString(now \div TicksPerSecond)

\* name of the single file of an unpartitioned write
SingleFile(batch_id, now, suffix) ==
    "alerts_" \o batch_id \o "_" \o Timestamp(now) \o suffix

\* _write_parquet: the files it writes and the path it returns.  guid is the
\* fresh name pyarrow draws for the files of one write_to_dataset call.
write_parquet(rows, batch_id, partition_by_date, now, guid) ==
    IF partition_by_date
    THEN LET dates == {rows[i].observation_date : i \in DOMAIN rows}
             name(d) == PartitionFile(d, guid)
         IN [files |-> [n \in {name(d) : d \in dates} |->
                          LET d == CHOOSE e \in dates : name(e) = n
                          IN [partition |-> Some(d), format |-> "parquet",
                              rows |-> RowsOfDate(rows, d)]],
             path |-> OutputPath]
    ELSE LET n == SingleFile(batch_id, now, ".parquet")
         IN [files |-> (n :> [partition |-> None, format |-> "parquet", rows |-> rows]),
             path |-> OutputPath \o "/" \o n]

\* _write_json: one file per call, never partitioned
write_json(rows, batch_id, now) ==
    LET n == SingleFile(batch_id, now, ".json")
    IN [files |-> (n :> [partition |-> None, format |-> "json", rows |-> rows]),
        path |-> OutputPath \o "/" \o n]

\* storage failures a write_batch call can meet: none, output_path.mkdir
\* fails, the file or dataset write fails
WriteFaults == {"none", "mkdir", "write"}

\* the failure passed on as it is, without the WriteError around it
write_fails_reraise(b, error) ==
    /\ raised' = error
    /\ write_error' = None
    /\ returned_path' = None
    /\ log' = <<[level |-> "info", event |-> "write_batch_started", index |-> 0 - 1]>>

\* except Exception as e: raise WriteError(..., details={"batch_id", "error"})
write_fails(b, error) ==
    /\ raised' = "WriteError"
    /\ write_error' = Some([batch_id |-> b.batch_id, error |-> error])
    /\ returned_path' = None
    /\ log' = <<[level |-> "info", event |-> "write_batch_started", index |-> 0 - 1]>>

\* write_batch with the output directory created before the test for an empty batch
write_batch_mkdir_first(b, partition_by_date, failure) ==
    /\ written' = Some([batch |-> b, partition_by_date |-> partition_by_date])
    /\ last_op' = "write_batch"
    /\ fault' = failure
    /\ IF Count(b) = 0
       THEN /\ failure = "none"
            /\ returned_path' = Some(OutputPath)
            /\ log' = <<[level |-> "warning", event |-> "write_batch_empty",
                         index |-> 0 - 1]>>
            /\ raised' = "none"
            /\ write_error' = None
            /\ dir_exists' = TRUE
            /\ UNCHANGED <<files, writes>>
       ELSE IF failure = "mkdir"
       THEN /\ write_fails(b, "OSError")
            /\ UNCHANGED <<dir_exists, files, writes>>
       ELSE IF \E i \in DOMAIN b.alerts : to_flat_dict_raises(b.alerts[i])
       THEN /\ failure = "none"
            /\ write_fails(b, "TypeError")
            /\ dir_exists' = TRUE
            /\ UNCHANGED <<files, writes>>
       ELSE /\ writes < MaxWrites
            /\ LET w == IF file_format = "parquet"
                        THEN write_parquet(Records(b), b.batch_id, partition_by_date,
                                           clock, writes)
                        ELSE IF file_format = "json"
                        THEN write_json(Records(b), b.batch_id, clock)
                        ELSE write_parquet(Records(b), b.batch_id, partition_by_date,
                                           clock, writes)
               IN IF failure = "write"
                  THEN /\ \E kept \in (SUBSET DOMAIN w.files) \ {DOMAIN w.files} :
                            files' = WriteFiles(files, [n \in kept |-> w.files[n]])
                       /\ write_fails(b, "OSError")
                  ELSE /\ files' = WriteFiles(files, w.files)
                       /\ returned_path' = Some(w.path)
                       /\ log' = <<[level |-> "info", event |-> "write_batch_started",
                                    index |-> 0 - 1],
                                   [level |-> "info", event |-> "write_batch_completed",
                                    index |-> 0 - 1]>>
                       /\ raised' = "none"
                       /\ write_error' = None
            /\ dir_exists' = TRUE
            /\ writes' = writes + 1
    /\ read_result' = None
    /\ stats' = None
    /\ UNCHANGED <<config_vars, client_vars, clock, uuids, process_vars>>

\* write_batch(batch, partition_by_date), meeting the storage failure given.
\* A dataset write that fails part-way leaves the files it had finished.
write_batch(b, partition_by_date, failure) ==
    /\ written' = Some([batch |-> b, partition_by_date |-> partition_by_date])
    /\ last_op' = "write_batch"
    /\ fault' = failure
    /\ IF Count(b) = 0
       THEN /\ failure = "none"
            /\ returned_path' = Some(OutputPath)
            /\ log' = <<[level |-> "warning", event |-> "write_batch_empty",
                         index |-> 0 - 1]>>
            /\ raised' = "none"
            /\ write_error' = None
            /\ UNCHANGED <<dir_exists, files, writes>>
       ELSE IF failure = "mkdir"
       THEN /\ write_fails(b, "OSError")
            /\ UNCHANGED <<dir_exists, files, writes>>
       ELSE IF \E i \in DOMAIN b.alerts : to_flat_dict_raises(b.alerts[i])
       THEN /\ failure = "none"
            /\ write_fails(b, "TypeError")
            /\ dir_exists' = TRUE
            /\ UNCHANGED <<files, writes>>
       ELSE /\ writes < MaxWrites
            /\ LET w == IF file_format = "parquet"
                        THEN write_parquet(Records(b), b.batch_id, partition_by_date,
                                           clock, writes)
                        ELSE IF file_format = "json"
                        THEN write_json(Records(b), b.batch_id, clock)
                        ELSE write_parquet(Records(b), b.batch_id, partition_by_date,
                                           clock, writes)
               IN IF failure = "write"
                  THEN /\ \E kept \in (SUBSET DOMAIN w.files) \ {DOMAIN w.files} :
                            files' = WriteFiles(files, [n \in kept |-> w.files[n]])
                       /\ write_fails(b, "OSError")
                  ELSE /\ files' = WriteFiles(files, w.files)
                       /\ returned_path' = Some(w.path)
                       /\ log' = <<[level |-> "info", event |-> "write_batch_started",
                                    index |-> 0 - 1],
                                   [level |-> "info", event |-> "write_batch_completed",
                                    index |-> 0 - 1]>>
                       /\ raised' = "none"
                       /\ write_error' = None
            /\ dir_exists' = TRUE
            /\ writes' = writes + 1
    /\ read_result' = None
    /\ stats' = None
    /\ UNCHANGED <<config_vars, client_vars, clock, uuids, process_vars>>

\* ------------------------------------------------------------- read-back
EmptyFrame == [rows |-> <<>>]

\* A stored row as a row of the DataFrame read back, with the dtype of its
\* object_id cell
FrameRow(r, dtype) ==
    [object_id |-> r.object_id, object_id_dtype |-> dtype,
     observation_date |-> r.observation_date]

FrameRows(rows, dtype) == [i \in 1..Len(rows) |-> FrameRow(rows[i], dtype)]

\* pd.read_json on one file: a column whose strings are all numbers is
\* converted to int64, any other column of strings stays object
ReadJsonFile(f) ==
    FrameRows(f.rows,
              IF f.rows # <<>> /\ \A i \in DOMAIN f.rows : f.rows[i].object_id \in NumericIds
              THEN "int64" ELSE "object")

\* a parquet file keeps the dtype of every column
ReadParquetFile(f) == FrameRows(f.rows, "object")

\* The files of names that come first when a dataset is read: those outside
\* any partition directory (their names start with "alerts_"), then the
\* partition directories by ascending date.  Files inside one directory are
\* named by random guids or by batch id, so any of them may come first.
FirstFiles(names) ==
    LET root == {n \in names : files[n].partition = None}
        part == names \ root
    IN IF root # {} THEN root
       ELSE {n \in part : \A m \in part : files[n].partition[1] <= files[m].partition[1]}

\* Every order in which the rows of the parquet files of names can be read
RECURSIVE ParquetRows(_)
ParquetRows(names) ==
    IF names = {} THEN {<<>>}
    ELSE UNION {{ReadParquetFile(files[n]) \o rest : rest \in ParquetRows(names \ {n})} :
                  n \in FirstFiles(names)}

\* Every order in which glob("*.json") lists the files of names, read and concatenated
RECURSIVE JsonRows(_)
JsonRows(names) ==
    IF names = {} THEN {<<>>}
    ELSE UNION {{ReadJsonFile(files[n]) \o rest : rest \in JsonRows(names \ {n})} :
                  n \in names}

FilterDate(rows, observation_date) ==
    IF observation_date = None THEN rows
    ELSE SelectSeq(rows, LAMBDA r : r.observation_date = observation_date[1])

\* df.head(n)
DfHead(rows, n) ==
    IF n >= 0 THEN SubSeq(rows, 1, IF n < Len(rows) THEN n ELSE Len(rows))
    ELSE SubSeq(rows, 1, IF Len(rows) + n > 0 THEN Len(rows) + n ELSE 0)

\* if limit: df = df.head(limit)
ApplyLimit(rows, limit) ==
    IF limit # None /\ limit[1] # 0 THEN DfHead(rows, limit[1]) ELSE rows

\* read_bronze_data(observation_date, limit): the frames it can return
ReadOutcomes(observation_date, limit) ==
    IF ~dir_exists THEN {EmptyFrame}
    ELSE IF file_format = "parquet"
    THEN LET names == {n \in DOMAIN files : files[n].format = "parquet"}
             mixed == /\ \E n \in names : files[n].partition = None
                      /\ \E n \in names : files[n].partition # None
             read == {[rows |-> ApplyLimit(FilterDate(rows, observation_date), limit)] :
                        rows \in ParquetRows(names)}
         IN IF names = {} THEN {EmptyFrame}
            \* a directory that holds a partitioned dataset and single files with
            \* the partition column inside: pyarrow either fails to unify the
            \* schemas (caught: empty frame) or reads the files
            ELSE IF mixed THEN read \cup {EmptyFrame}
            ELSE read
    ELSE LET json_files == {n \in DOMAIN files : files[n].format = "json"}
         IN IF json_files = {} THEN {EmptyFrame}
            ELSE {[rows |-> ApplyLimit(FilterDate(rows, observation_date), limit)] :
                    rows \in JsonRows(json_files)}

ReadDates == {None, Some(ObservationDate(Jd1))}
ReadLimits == {None, Some(1)}
\* storage failures a read can meet: none, or pd.read_parquet / glob /
\* pd.read_json raises
ReadFaults == {"none", "read"}

\* read_bronze_data with the error of a failed read passed on to the caller
read_bronze_data_reraise(observation_date, limit, failure) ==
    /\ failure \in ReadFaults
    /\ failure = "read" => dir_exists
    /\ IF failure = "read"
       THEN /\ read_result' = None
            /\ log' = <<>>
            /\ raised' = "OSError"
       ELSE /\ read_result' \in {Some([observation_date |-> observation_date,
                                        limit |-> limit, frame |-> df]) :
                                     df \in ReadOutcomes(observation_date, limit)}
            /\ log' = IF ~dir_exists
                      THEN <<[level |-> "warning", event |-> "bronze_path_not_found",
                              index |-> 0 - 1]>>
                      ELSE <<>>
            /\ raised' = "none"
    /\ fault' = failure
    /\ stats' = None
    /\ last_op' = "read_bronze_data"
    /\ UNCHANGED <<config_vars, client_vars, clock, uuids, storage_vars, process_vars, write_vars>>

\* read_bronze_data(observation_date, limit), meeting the storage failure given
read_bronze_data(observation_date, limit, failure) ==
    /\ failure \in ReadFaults
    /\ failure = "read" => dir_exists
    /\ IF failure = "read"
       THEN /\ read_result' = Some([observation_date |-> observation_date,
                                         limit |-> limit, frame |-> EmptyFrame])
            /\ log' = <<[level |-> "error", event |-> "read_bronze_error",
                         index |-> 0 - 1]>>
            /\ raised' = "none"
       ELSE /\ read_result' \in {Some([observation_date |-> observation_date,
                                        limit |-> limit, frame |-> df]) :
                                     df \in ReadOutcomes(observation_date, limit)}
            /\ log' = IF ~dir_exists
                      THEN <<[level |-> "warning", event |-> "bronze_path_not_found",
                              index |-> 0 - 1]>>
                      ELSE <<>>
            /\ raised' = "none"
    /\ fault' = failure
    /\ stats' = None
    /\ last_op' = "read_bronze_data"
    /\ UNCHANGED <<config_vars, client_vars, clock, uuids, storage_vars, process_vars, write_vars>>

\* The statistics with a date range made up for a frame without rows
statistics_dated(df) ==
    LET dates == {df.rows[i].observation_date : i \in DOMAIN df.rows} \cup {0}
    IN [total_records |-> Len(df.rows),
        unique_objects |->
            Cardinality({<<df.rows[i].object_id, df.rows[i].object_id_dtype>> :
                           i \in DOMAIN df.rows}),
        date_range |->
            Some([min |-> CHOOSE d \in dates : \A e \in dates : d <= e,
                  max |-> CHOOSE d \in dates : \A e \in dates : d >= e]),
        classifications |-> {}]

\* get_statistics: the dict computed from the frame read back
statistics(df) ==
    IF df.rows = <<>>
    THEN [total_records |-> 0, unique_objects |-> 0, date_range |-> None,
          classifications |-> {}]
    ELSE LET dates == {df.rows[i].observation_date : i \in DOMAIN df.rows}
         IN [total_records |-> Len(df.rows),
             unique_objects |->
                 Cardinality({<<df.rows[i].object_id, df.rows[i].object_id_dtype>> :
                                i \in DOMAIN df.rows}),
             date_range |->
                 Some([min |-> CHOOSE d \in dates : \A e \in dates : d <= e,
                       max |-> CHOOSE d \in dates : \A e \in dates : d >= e]),
             classifications |-> {}]

\* get_statistics(): read_bronze_data() with no filter, then the statistics
get_statistics(failure) ==
    /\ failure \in ReadFaults
    /\ failure = "read" => dir_exists
    /\ stats' \in {Some(statistics(df)) :
                     df \in IF failure = "read" THEN {EmptyFrame}
                            ELSE ReadOutcomes(None, None)}
    /\ log' = IF ~dir_exists
              THEN <<[level |-> "warning", event |-> "bronze_path_not_found",
                      index |-> 0 - 1]>>
              ELSE IF failure = "read"
              THEN <<[level |-> "error", event |-> "read_bronze_error", index |-> 0 - 1]>>
              ELSE <<>>
    /\ raised' = "none"
    /\ fault' = failure
    /\ read_result' = None
    /\ last_op' = "get_statistics"
    /\ UNCHANGED <<config_vars, client_vars, clock, uuids, storage_vars, process_vars, write_vars>>

\* The batches process_alerts returns at this moment for the stored inputs
BatchesNow ==
    {r.batch[1] :
        r \in {q \in {process_result(raw_alerts, source, None, supplied,
                                     schema_validation_mode, clock, uuids) :
                        raw_alerts \in StoredInputs, source \in Sources,
                        supplied \in StoredBatchIds} : q.raised = "none"}}

\* A caller writes a batch it got from process_alerts
WriteBatch ==
    \E b \in BatchesNow, partition_by_date \in BOOLEAN :
        write_batch(b, partition_by_date, "none")

\* A caller reads the stored data back
ReadBronzeData ==
    \E observation_date \in ReadDates, limit \in ReadLimits :
        read_bronze_data(observation_date, limit, "none")

\* A caller asks for the statistics of the stored data
GetStatistics == get_statistics("none")

\* Storage that never fails
NextStorage == WriteBatch \/ ReadBronzeData \/ GetStatistics \/ Tick

\* Every stored input validates, so the validation mode plays no part in storage
InitStorage == Init /\ schema_validation_mode = "strict"

SpecStorage == InitStorage /\ [][NextStorage]_vars

\* raw_alerts lists behind the batches written to storage that can fail: two
\* observation dates, one record with a cutout
FaultInputs == {<<ValidA, ValidB>>, <<ValidWithCutout>>}

FaultBatches ==
    {r.batch[1] :
        r \in {q \in {process_result(raw_alerts, source, None, Some("custom_123"),
                                     schema_validation_mode, clock, uuids) :
                        raw_alerts \in FaultInputs, source \in Sources} :
                q.raised = "none"}}

\* read_bronze_data accepts any limit
FaultLimits == {None, Some(0), Some(1), Some(0 - 1)}

WriteBatchFaulty ==
    \E b \in FaultBatches, partition_by_date \in BOOLEAN, failure \in WriteFaults :
        write_batch(b, partition_by_date, failure)

ReadBronzeDataFaulty ==
    \E observation_date \in ReadDates, limit \in FaultLimits, failure \in ReadFaults :
        read_bronze_data(observation_date, limit, failure)

GetStatisticsFaulty == \E failure \in ReadFaults : get_statistics(failure)

\* Storage whose operations can fail
NextFaults == WriteBatchFaulty \/ ReadBronzeDataFaulty \/ GetStatisticsFaulty

SpecFaults == InitStorage /\ [][NextFaults]_vars

\* A caller processes one of the stored inputs, at any time
ProcessStored ==
    \E raw_alerts \in FaultInputs, source \in Sources :
        process_alerts_call(raw_alerts, source, None, Some("custom_123"))

\* A caller writes the batch the last process_alerts returned
WriteReturnedBatch ==
    /\ batch # None
    /\ \E partition_by_date \in BOOLEAN, failure \in WriteFaults :
        write_batch(batch[1], partition_by_date, failure)

\* The four operations of the processor, one after the other
\* A caller reads the stored data, and the read may fail
ReadStored ==
    \E observation_date \in ReadDates, limit \in ReadLimits, failure \in ReadFaults :
        read_bronze_data(observation_date, limit, failure)

NextFrame ==
    ProcessStored \/ WriteReturnedBatch \/ ReadStored \/ GetStatisticsFaulty

SpecFrame == InitStorage /\ [][NextFrame]_vars

Next ==
    \/ process_alerts
    \/ WriteBatchFaulty
    \/ ReadBronzeDataFaulty
    \/ GetStatisticsFaulty
    \/ Tick

Spec == Init /\ [][Next]_vars

\* ================================================================= claims
\* ------------------------------------------------ process_alerts (SpecProcess)
Processed == last_op = "process_alerts"
Valid(raw) == InvalidFields(raw) = {}
AllFail == \A i \in DOMAIN raw_input : ~Valid(raw_input[i])
ValidInputs == SelectSeq(raw_input, Valid)
Returned == raised = "none" /\ batch # None
\* the raw records behind the alerts of the returned batch, in batch order
BatchPayloads == [i \in 1..Len(batch[1].alerts) |-> batch[1].alerts[i].raw_payload]

C3_LenientNeverRaises ==
    (Processed /\ schema_validation_mode \in {"warn", "ignore"}) =>
        /\ Returned
        /\ BatchPayloads = ValidInputs
        /\ AllFail => Count(batch[1]) = 0

\* C3 witness: a warn or ignore call on invalid records only returned an empty batch
C3_Witness ==
    /\ Processed /\ schema_validation_mode \in {"warn", "ignore"}
    /\ Len(raw_input) >= 2 /\ AllFail
    /\ Returned /\ Count(batch[1]) = 0

\* C4: on an empty input list process_alerts returns a batch of count 0 and
\* raises nothing, in every validation mode.
C4_EmptyInputEmptyBatch ==
    (Processed /\ raw_input = <<>>) =>
        (Returned /\ Count(batch[1]) = 0 /\ batch[1].alerts = <<>>)

\* C4 witness: a strict call on the empty list has returned
C4_Witness ==
    /\ Processed /\ raw_input = <<>> /\ schema_validation_mode = "strict"
    /\ batch # None

\* C5: whenever process_alerts returns, the alerts of the batch are the valid
\* input records, one enriched record each, in input order; the count is
\* the number of valid input records.
C5_BatchIsValidInputsInOrder ==
    (Processed /\ raised = "none") =>
        /\ batch # None
        /\ BatchPayloads = ValidInputs
        /\ Count(batch[1]) = Cardinality({i \in DOMAIN raw_input : Valid(raw_input[i])})
        /\ \A i \in 1..Len(batch[1].alerts) :
             batch[1].alerts[i].alert.objectId = ValidInputs[i].objectId

\* C5 witness: two different valid records around an invalid one were returned
C5_Witness ==
    /\ Processed /\ raised = "none"
    /\ raw_input = <<ValidB, BadRa, ValidA>>
    /\ Count(batch[1]) = 2

\* C6: every input record is attempted exactly once, successes plus failures
\* make up the input length, and the failure entries are those of the
\* invalid records in increasing index.
C6_EveryRecordAttempted ==
    Processed =>
        /\ attempted = [i \in 1..Len(raw_input) |-> i - 1]
        /\ Len(bronze_alerts) + Len(validation_errors) = Len(raw_input)
        /\ \A i \in 1..Len(validation_errors) :
             /\ validation_errors[i].index \in 0..(Len(raw_input) - 1)
             /\ ~Valid(raw_input[validation_errors[i].index + 1])
        /\ \A i, j \in 1..Len(validation_errors) :
             i < j => validation_errors[i].index < validation_errors[j].index

\* C6 witness: a failure at index 0, a success after it, a failure at index 2
C6_Witness ==
    /\ Processed
    /\ Len(raw_input) = 3 /\ Len(bronze_alerts) = 1 /\ Len(validation_errors) = 2
    /\ validation_errors[1].index = 0 /\ validation_errors[2].index = 2

\* ------------------------------------------------------ storage (SpecStorage)
Wrote == last_op = "write_batch"
\* the step is a write_batch call that reached storage and returned
WriteStep == last_op' = "write_batch" /\ writes' = writes + 1 /\ raised' = "none"
\* how many stored rows equal r
StoredCopies(fs, r) ==
    LET cells == UNION {{<<n, i>> : i \in DOMAIN fs[n].rows} : n \in DOMAIN fs}
    IN Cardinality({c \in cells : fs[c[1]].rows[c[2]] = r})
Copies(rows, r) == Cardinality({i \in DOMAIN rows : rows[i] = r})
RowValues == {to_flat_dict(BronzeAlert(ZTFAlert(raw), "fink_api", None, raw, "", 0)) :
                raw \in {ValidA, ValidB, ValidNumericId}}

\* C7 (as stated): for every file format, writing a non-empty batch to empty
\* storage and reading it back without filters returns as many rows as the
\* batch holds, with the same object identifiers.
C7_RoundTrip ==
    (/\ last_op = "read_bronze_data"
     /\ read_result[1].observation_date = None /\ read_result[1].limit = None
     /\ writes = 1 /\ written # None /\ Count(written[1].batch) > 0) =>
        LET rows == read_result[1].frame.rows
            recs == Records(written[1].batch)
        IN /\ Len(rows) = Count(written[1].batch)
           /\ \A i \in DOMAIN rows : rows[i].object_id_dtype = "object"
           /\ \A id \in {recs[i].object_id : i \in DOMAIN recs} :
                Cardinality({i \in DOMAIN rows : rows[i].object_id = id})
                    = Cardinality({i \in DOMAIN recs : recs[i].object_id = id})

\* C8: partitioned writes are append-only: a partitioned write keeps every
\* stored file as it was, so no row of an earlier call and no partition of
\* another date is lost, and the rows of the batch are added to the
\* partitions of their dates.
C8_PartitionedAppendOnly ==
    [][(WriteStep /\ file_format # "json" /\ written'[1].partition_by_date) =>
          /\ \A n \in DOMAIN files : n \in DOMAIN files' /\ files'[n] = files[n]
          /\ \A r \in RowValues :
               StoredCopies(files', r)
                   = StoredCopies(files, r) + Copies(Records(written'[1].batch), r)
          /\ \A n \in DOMAIN files' \ DOMAIN files :
               /\ files'[n].partition # None
               /\ \A i \in DOMAIN files'[n].rows :
                    files'[n].rows[i].observation_date = files'[n].partition[1]]_vars

\* C8 witness: a second partitioned write has added a file to an existing date
C8_Witness ==
    /\ Wrote /\ writes = 2 /\ file_format = "parquet" /\ written[1].partition_by_date
    /\ \E n, m \in DOMAIN files :
         /\ n # m
         /\ files[n].partition # None /\ files[n].partition = files[m].partition

\* C9 (as stated): without partitioning, or in the json format, every
\* write_batch call writes a file of its own: it never targets the name of
\* a file an earlier call wrote.
C9_UniqueFileNames ==
    [][(WriteStep /\ (file_format = "json" \/ ~written'[1].partition_by_date)) =>
          /\ Cardinality(DOMAIN files') = Cardinality(DOMAIN files) + 1
          /\ \A n \in DOMAIN files : files'[n] = files[n]]_vars

\* C10: write_batch on a batch of zero records returns the configured output
\* location and leaves storage as it was: no directory, no file is created
\* or changed.
C10_EmptyWriteNoOp ==
    [][(last_op' = "write_batch" /\ Count(written'[1].batch) = 0) =>
          /\ returned_path' = Some(OutputPath)
          /\ dir_exists' = dir_exists
          /\ files' = files
          /\ writes' = writes]_vars

\* C10 witness: an empty batch was written first and the output directory
\* still does not exist
C10_Witness ==
    /\ Wrote /\ Count(written[1].batch) = 0
    /\ returned_path = Some(OutputPath)
    /\ ~dir_exists /\ files = <<>>

\* --------------------------------------------- failing storage (SpecFaults)
\* the batch of the last write_batch call
WrittenBatch == written[1].batch
\* the stored rows of an object, whatever file holds them
StoredRowsOf(object_id) ==
    UNION {{files[n].rows[i] : i \in {j \in DOMAIN files[n].rows :
                                        files[n].rows[j].object_id = object_id}} :
             n \in DOMAIN files}

\* C11 (as stated): when the raw payload of a record of the batch cannot be
\* serialized to text and storage does not fail, write_batch does not abort:
\* it returns, the record is stored, and its raw_payload_json column is null.
C11_UnserializablePayloadStoredNull ==
    (/\ Wrote /\ fault = "none"
     /\ \E i \in DOMAIN WrittenBatch.alerts : to_flat_dict_raises(WrittenBatch.alerts[i])) =>
        /\ raised = "none"
        /\ \A i \in DOMAIN WrittenBatch.alerts :
             to_flat_dict_raises(WrittenBatch.alerts[i]) =>
                 /\ StoredRowsOf(WrittenBatch.alerts[i].alert.objectId) # {}
                 /\ \A r \in StoredRowsOf(WrittenBatch.alerts[i].alert.objectId) :
                      r.raw_payload_json = None

\* the last write_batch call met a failure in its write path
WriteFailed ==
    \/ fault # "none"
    \/ \E i \in DOMAIN WrittenBatch.alerts : to_flat_dict_raises(WrittenBatch.alerts[i])
\* the exception the failing step of the last write_batch call raised
UnderlyingError == IF fault # "none" THEN "OSError" ELSE "TypeError"

\* C12: every failure in the write path of write_batch on a non-empty batch
\* (creating the directory, flattening, writing the file or dataset) reaches
\* the caller as a WriteError whose details hold the batch id and the
\* underlying error; no other exception escapes, and without a failure the
\* call returns.
C12_WriteFailuresAreWriteErrors ==
    (Wrote /\ Count(WrittenBatch) > 0) =>
        /\ raised \in {"none", "WriteError"}
        /\ WriteFailed <=> raised = "WriteError"
        /\ raised = "WriteError" =>
              /\ write_error # None
              /\ write_error[1].batch_id = WrittenBatch.batch_id
              /\ write_error[1].error = UnderlyingError
        /\ raised = "none" => write_error = None /\ returned_path # None

\* C12 witness: the dataset write failed after the directory was created and
\* the caller got a WriteError naming the batch
C12_Witness ==
    /\ Wrote /\ fault = "write" /\ dir_exists
    /\ raised = "WriteError"
    /\ write_error = Some([batch_id |-> WrittenBatch.batch_id, error |-> "OSError"])

\* C13 (as stated): write_batch is all-or-nothing per batch: when it raises,
\* every stored file, and so the rows of every partition, is as it was before
\* the call, also when the batch spans several dates.
C13_AllOrNothing ==
    [][(last_op' = "write_batch" /\ raised' # "none") => files' = files]_vars

StoredOfDate(d) ==
    Cardinality({c \in UNION {{<<n, i>> : i \in DOMAIN files[n].rows} : n \in DOMAIN files} :
                   files[c[1]].rows[c[2]].observation_date = d})

\* C15 (as stated): when read_bronze_data is given a date, every returned row
\* has that observation_date, and every stored row with that date is
\* returned, up to the limit.
C15_DateFilterExact ==
    (last_op = "read_bronze_data" /\ read_result[1].observation_date # None) =>
        LET d == read_result[1].observation_date[1]
            limit == read_result[1].limit
            rows == read_result[1].frame.rows
        IN /\ \A i \in DOMAIN rows : rows[i].observation_date = d
           /\ Len(rows) = IF limit # None /\ limit[1] < StoredOfDate(d)
                          THEN limit[1] ELSE StoredOfDate(d)

\* C17 (as stated): after successful write_batch calls get_statistics reports
\* as total_records the number of rows written, as unique_objects the number
\* of distinct object identifiers among them, and a date range.  Stated for
\* the states in which one call has written so far, where the rows written
\* in total are the rows of that batch.
C17_StatisticsCountWrites ==
    (/\ last_op = "get_statistics"
     /\ writes = 1 /\ written # None /\ Count(WrittenBatch) > 0) =>
        LET recs == Records(WrittenBatch)
        IN /\ stats[1].total_records = Len(recs)
           /\ stats[1].unique_objects
                = Cardinality({recs[i].object_id : i \in DOMAIN recs})
           /\ stats[1].date_range # None

\* --------------------------------------- empty storage (SpecFaults)
\* C16: get_statistics on storage that does not exist or holds no file
\* returns total_records 0, unique_objects 0, no date range and empty
\* classification counts, and does not raise.
C16_EmptyStatistics ==
    (last_op = "get_statistics" /\ (~dir_exists \/ files = <<>>)) =>
        /\ raised = "none"
        /\ stats = Some([total_records |-> 0, unique_objects |-> 0,
                         date_range |-> None, classifications |-> {}])

\* C16 witness: the output directory exists (a write failed after creating
\* it) and holds no file, and get_statistics returned the zero statistics
C16_Witness ==
    /\ last_op = "get_statistics" /\ dir_exists /\ files = <<>>
    /\ stats # None /\ stats[1].total_records = 0 /\ stats[1].date_range = None

\* ------------------------------------------ validation (SpecValidate)
\* the one raw record of the call
Raw == raw_input[1]
Validated == Processed /\ Len(raw_input) = 1
\* the record has every required field and meets every field constraint
InRange(raw) ==
    /\ \A k \in {"objectId", "ra", "dec", "magpsf", "sigmapsf", "fid", "jd"} : Has(raw, k)
    /\ Len(raw.objectId) >= ObjectIdMinLength
    /\ raw.ra >= RaLowerBound /\ raw.ra < RaUpperBound
    /\ raw.dec >= DecLowerBound /\ raw.dec <= DecUpperBound
    /\ raw.sigmapsf >= SigmaLowerBound
    /\ raw.fid \in FidLowerBound..FidUpperBound
    /\ raw.jd > JdThreshold
    /\ \A k \in {"rb", "drb"} :
         Has(raw, k) => raw[k] >= ScoreLowerBound /\ raw[k] <= ScoreUpperBound
    /\ Has(raw, "prv_candidates") =>
         \A i \in DOMAIN raw.prv_candidates : raw.prv_candidates[i].type = "dict"

\* C18: every raw record with the required fields present, right ascension
\* in [0, 360), declination in [-90, 90] and the other field constraints met
\* validates, and every field of the alert equals the field of the input.
C18_InRangeValidates ==
    (Validated /\ InRange(Raw)) =>
        /\ Len(bronze_alerts) = 1 /\ validation_errors = <<>>
        /\ LET alert == bronze_alerts[1].alert
           IN /\ \A k \in {"objectId", "ra", "dec", "magpsf", "sigmapsf", "fid", "jd"} :
                   alert[k] = Raw[k]
              /\ \A k \in {"candid", "rb", "drb", "prv_candidates"} :
                   alert[k] = Opt(Raw, k)

\* C18 witness: a record on the edges of the ranges (ra 0, dec 90, score 1,
\* filter 3) validated and kept its values
C18_Witness ==
    /\ Validated /\ Len(bronze_alerts) = 1
    /\ bronze_alerts[1].alert.ra = RaLowerBound /\ Raw.ra = RaLowerBound
    /\ bronze_alerts[1].alert.dec = DecUpperBound
    /\ bronze_alerts[1].alert.rb = Some(ScoreUpperBound)
    /\ bronze_alerts[1].alert.fid = FidUpperBound

\* the record has a value outside the range of its field
OutOfRange(raw) ==
    \/ Has(raw, "ra") /\ (raw.ra >= RaUpperBound \/ raw.ra < RaLowerBound)
    \/ Has(raw, "dec") /\ (raw.dec > DecUpperBound \/ raw.dec < DecLowerBound)
    \/ \E k \in {"rb", "drb"} :
         Has(raw, k) /\ (raw[k] < ScoreLowerBound \/ raw[k] > ScoreUpperBound)
    \/ Has(raw, "fid") /\ raw.fid \notin FidLowerBound..FidUpperBound
    \/ Has(raw, "jd") /\ ~(raw.jd > JdThreshold)
    \/ Has(raw, "objectId") /\ Len(raw.objectId) < ObjectIdMinLength

\* C19: a raw record with right ascension >= 360 or < 0, declination > 90 or
\* < -90, a score outside [0, 1], a filter index outside {1, 2, 3}, a
\* timestamp not above the threshold or an object identifier shorter than 3
\* characters is rejected with a validation error: no alert is built from
\* it, with the value clamped or otherwise.
C19_OutOfRangeRejected ==
    (Validated /\ OutOfRange(Raw)) =>
        /\ bronze_alerts = <<>>
        /\ Len(validation_errors) = 1
        /\ validation_errors[1].error # {}
        /\ batch # None => Count(batch[1]) = 0

\* C19 witness: right ascension 360 was the one value out of range and the
\* record was rejected for it
C19_Witness ==
    /\ Validated /\ Raw.ra = RaUpperBound
    /\ bronze_alerts = <<>>
    /\ Len(validation_errors) = 1 /\ validation_errors[1].error = {"ra"}

\* the entry of a history is malformed: not a dict, or a dict that
\* PreviousCandidate does not accept
Malformed(prv) == prv.type # "dict" \/ PrvInvalidFields(prv.value) # {}
WellFormed(prv) == ~Malformed(prv)

\* C20 (as stated): a malformed entry in the history of an alert never makes
\* the validation of the alert fail: the alert validates, and its parsed
\* history is the well-formed entries in order.
C20_MalformedHistoryDropped ==
    (/\ Validated /\ Has(Raw, "prv_candidates")
     /\ InvalidFields([k \in DOMAIN Raw \ {"prv_candidates"} |-> Raw[k]]) = {}
     /\ \E i \in DOMAIN Raw.prv_candidates : Malformed(Raw.prv_candidates[i])) =>
        /\ Len(bronze_alerts) = 1
        /\ get_previous_candidates(bronze_alerts[1].alert)
             = LET kept == SelectSeq(Raw.prv_candidates, WellFormed)
               IN [i \in 1..Len(kept) |-> PreviousCandidate(kept[i].value)]

\* ------------------------------------------- partition key (SpecDerive)
\* the partition key of an enriched record as text
KeyText(a) == strftime_date(a.observation_date)

Call == call[1]
\* the identifier _generate_batch_id gave in the call that returned the batch
GeneratedId == generate_batch_id(batch[1].created_at, uuids - 1)

\* C22 (as stated): when a batch id is supplied to process_alerts the
\* returned batch has that batch_id; an identifier is generated only when
\* none is supplied.
C22_SuppliedIdKept ==
    (Processed /\ Returned) =>
        /\ Call.batch_id # None => batch[1].batch_id = Call.batch_id[1] /\ uuids = 0
        /\ Call.batch_id = None => batch[1].batch_id = GeneratedId

\* C22 (amended): a supplied batch id that is not the empty string is the
\* batch_id of the returned batch, and no identifier is generated; when none
\* or the empty string is supplied the batch_id is a generated identifier.
C22_NonEmptyIdKept ==
    (Processed /\ Returned) =>
        /\ (Call.batch_id # None /\ Call.batch_id # Some("")) =>
              batch[1].batch_id = Call.batch_id[1] /\ uuids = 0
        /\ (Call.batch_id = None \/ Call.batch_id = Some("")) =>
              batch[1].batch_id = GeneratedId /\ uuids = 1

\* C22 witness: a batch returned under the identifier the caller supplied
C22_Witness ==
    /\ Processed /\ Returned /\ Call.batch_id = Some("custom_123")
    /\ batch[1].batch_id = "custom_123" /\ Count(batch[1]) > 0

\* C23: in every batch process_alerts returns, each enriched record has the
\* batch_id of the batch as its processing_id, and the source and source
\* version passed to the call.
C23_RecordsTagged ==
    (Processed /\ Returned) =>
        \A i \in DOMAIN batch[1].alerts :
            /\ batch[1].alerts[i].processing_id = batch[1].batch_id
            /\ batch[1].alerts[i].source = Call.source
            /\ batch[1].alerts[i].source_version = Call.source_version

\* C23 witness: two records tagged with a generated identifier, a source
\* other than the default and a source version
C23_Witness ==
    /\ Processed /\ Returned /\ Count(batch[1]) = 2
    /\ Call = [source |-> "fink_kafka", source_version |-> Some("v1"), batch_id |-> None]
    /\ batch[1].alerts[2].processing_id = GeneratedId
    /\ batch[1].alerts[2].source = "fink_kafka"

\* C24: the provenance of every returned batch holds the source passed to
\* the call and the number of input records, failed ones included: the
\* number is never below the count of the batch and exceeds it by the number
\* of failures.
C24_ProvenanceCountsInput ==
    (Processed /\ Returned) =>
        /\ batch[1].source_query.source = Call.source
        /\ batch[1].source_query.count = Len(raw_input)
        /\ batch[1].source_query.count >= Count(batch[1])
        /\ batch[1].source_query.count - Count(batch[1]) = Len(validation_errors)
        /\ Len(validation_errors) = Len(SelectSeq(raw_input, LAMBDA raw : ~Valid(raw)))

\* C24 witness: three records went in, one failed, two are in the batch
C24_Witness ==
    /\ Processed /\ Returned /\ Call.source = "fink_kafka"
    /\ batch[1].source_query = [source |-> "fink_kafka", count |-> 3]
    /\ Count(batch[1]) = 2 /\ Len(validation_errors) = 1

\* the batch process_alerts returns for no input, with the arguments, the
\* mode and the time of the last call
EmptyInputBatch ==
    process_result(<<>>, Call.source, Call.source_version, Call.batch_id,
                   schema_validation_mode, batch[1].created_at, uuids - 1).batch[1]

\* C25: in every mode the outcome of process_alerts on a non-empty input
\* whose records all fail differs for the caller from its outcome on an
\* empty input: it raises, or the batch it returns differs from the batch of
\* the empty input in its alerts or its provenance.
C25_FailedDiffersFromEmpty ==
    (Processed /\ raw_input # <<>> /\ AllFail) =>
        \/ raised # "none"
        \/ /\ batch # None
           /\ \/ batch[1].alerts # EmptyInputBatch.alerts
              \/ batch[1].source_query # EmptyInputBatch.source_query

\* C25 witness: under warn two records failed and an empty batch came back
\* whose provenance counts them
C25_Witness ==
    /\ Processed /\ schema_validation_mode = "warn"
    /\ Len(raw_input) = 2 /\ AllFail /\ Returned
    /\ Count(batch[1]) = 0 /\ batch[1].source_query.count = 2

\* ------------------------------------------------ failure log (SpecProcess)
\* the log entries of the failures of single records
FailureLog == SelectSeq(log, LAMBDA entry : entry.index >= 0)

\* C27: the log of failures follows the mode: under strict one entry at
\* error level for each validation failure, under warn one at warning
\* level, under ignore none; the entries are in record order.
C27_FailureLogFollowsMode ==
    Processed =>
        /\ schema_validation_mode = "ignore" => FailureLog = <<>>
        /\ schema_validation_mode # "ignore" =>
              /\ Len(FailureLog) = Len(validation_errors)
              /\ \A i \in DOMAIN FailureLog :
                   /\ FailureLog[i].index = validation_errors[i].index
                   /\ FailureLog[i].level
                        = IF schema_validation_mode = "strict" THEN "error" ELSE "warning"
              /\ \A i, j \in DOMAIN FailureLog :
                   i < j => FailureLog[i].index < FailureLog[j].index
        /\ Len(validation_errors) = Len(SelectSeq(raw_input, LAMBDA raw : ~Valid(raw)))

\* C27 witness: under strict the records at index 0 and 2 failed and were
\* logged as errors in that order, and the batch came back
C27_Witness ==
    /\ Processed /\ schema_validation_mode = "strict" /\ Returned
    /\ Len(FailureLog) = 2
    /\ FailureLog[1] = [level |-> "error", event |-> "validation_error_strict", index |-> 0]
    /\ FailureLog[2].index = 2 /\ FailureLog[2].level = "error"

\* --------------------------------------------- Fink client (SpecClient)
PostFinished == last_op = "_post" /\ post_status \in {"returned", "raised"}

\* C26 (as stated): when every attempt of _post times out, the exception
\* that reaches the caller after the retries are exhausted is
\* requests.Timeout; when the API answers with an error status, it is
\* requests.HTTPError.
C26_TimeoutReachesCaller ==
    PostFinished =>
        /\ (outcomes # <<>> /\ \A i \in DOMAIN outcomes : outcomes[i] \in Timeouts) =>
              raised \in {"Timeout", "ReadTimeout", "ConnectTimeout"}
        /\ outcomes[Len(outcomes)] = "error_status" => raised = "HTTPError"

C28_LimitBoundsRows ==
    (/\ last_op = "read_bronze_data" /\ fault = "none"
     /\ read_result[1].limit # None /\ read_result[1].limit[1] >= 0) =>
        LET n == read_result[1].limit[1]
            rows == read_result[1].frame.rows
        IN /\ Len(rows) <= n
           /\ \E full \in ReadOutcomes(read_result[1].observation_date, None) :
                rows = SubSeq(full.rows, 1, IF n < Len(full.rows) THEN n ELSE Len(full.rows))

\* ------------------------------------------------ frame (SpecFrame)
\* C30: process_alerts, read_bronze_data and get_statistics leave storage
\* as it was, read_bronze_data and get_statistics leave the returned batch
\* as it was, and write_batch leaves the batch it is given and its enriched
\* records, with their partition keys and ingestion timestamps, unchanged.
C30_ReadsAndBatchesUnchanged ==
    [][/\ last_op' \in {"process_alerts", "read_bronze_data", "get_statistics"} =>
            dir_exists' = dir_exists /\ files' = files
       /\ last_op' \in {"read_bronze_data", "get_statistics", "write_batch"} =>
            batch' = batch /\ bronze_alerts' = bronze_alerts
       /\ (last_op' = "write_batch" /\ written' # written) =>
            /\ written'[1].batch = batch[1]
            /\ \A i \in DOMAIN batch[1].alerts :
                 /\ batch'[1].alerts[i].observation_date = batch[1].alerts[i].observation_date
                 /\ batch'[1].alerts[i].ingestion_timestamp
                      = batch[1].alerts[i].ingestion_timestamp]_vars

\* C30 witness: the batch of two dates was written to partitions, then
\* process_alerts ran again and storage still holds the two files
C30_Witness ==
    /\ last_op = "process_alerts" /\ batch # None
    /\ written # None /\ written[1].batch.alerts # <<>>
    /\ Cardinality(DOMAIN files) = 2 /\ dir_exists

====
